---- MODULE Spec2Model ----
(***************************************************************************)
(* rsa-decrypt-timing: src/src/main.rs.                                    *)
(*                                                                         *)
(* The program opens an input and an output file, loads an RSA private     *)
(* key, and then reads the input in blocks of the modulus byte length,     *)
(* times one PKCS#1 decryption per block and appends the duration in       *)
(* nanoseconds, as a decimal line, to the output file.                     *)
(*                                                                         *)
(* Files and the console are byte streams: sequences of 0..255.            *)
(* main() is one sequential process; pc is its position.                   *)
(***************************************************************************)
EXTENDS Integers, Sequences, FiniteSets, TLC

\* ------------------------------------------------------------ bounds ----
MaxLen == 2         \* largest modulus byte length explored
MaxInput == 4       \* largest input file, in bytes
MaxDur == 12        \* longest single decrypt call, in nanoseconds
MaxTail == 2        \* most blocks still unread in a run taken up near a progress line

\* ---------------------------------------------------------- alphabets ---
CipherBytes == {0, 1}          \* byte values of the input file
PlainBytes == {65, 195, 169}   \* 'A', and the two bytes of U+00E9
Durations == {0, MaxDur}
NL == 10                       \* '\n'

ProgressEvery == 10000

VARIABLES
    pc,         \* position of main()
    stdoutArg,  \* args.stdout : Option<bool>  ("None", "False", "True")
    input,      \* content of the input file
    pos,        \* read position of reader
    outFile,    \* content of the output file
    outCreated, \* File::create(output) has succeeded
    console,    \* what the loop printed to standard output, one record per print
    len,        \* modulus byte length (0 until the key is loaded)
    in_buf,
    out_buf,
    i,
    now,        \* the monotonic clock
    start,      \* Instant taken at line 106
    res,        \* result of decrypter.decrypt: -1 = Err, n >= 0 = Ok(n); -2 = none yet
    duration,
    oracle,     \* the decrypt capability of the key, as far as it has been used
    readRes,    \* outcome of the last read_exact: "none", "ok", "eof", "io"
    err,        \* error main() returned ("none" while there is none)
    errIter,    \* iteration number carried by the error message (0: none)
    exitCode,   \* process exit status (-1 while running)
    events,     \* history: the steps of the loop, in order
    decrypted,  \* history: the blocks handed to decrypt, in order
    plains,     \* history: the plaintexts decrypt produced, in order
    measured,   \* history: the durations taken at line 108, in order
    twin        \* a second run of the program, on the same files and key

vars == <<pc, stdoutArg, input, pos, outFile, outCreated, console, len, in_buf,
          out_buf, i, now, start, res, duration, oracle, readRes, err, errIter,
          exitCode, events, decrypted, plains, measured, twin>>

\* ------------------------------------------------------ pure functions --
SeqsUpTo(S, n) == UNION {[1..k -> S] : k \in 0..n}

Zeros(n) == [k \in 1..n |-> 0]

RECURSIVE Flatten(_)
Flatten(ss) == IF ss = <<>> THEN <<>> ELSE Head(ss) \o Flatten(Tail(ss))

\* u128 Display: decimal digits, most significant first, as ASCII.
RECURSIVE ToDecimal(_)
ToDecimal(n) ==
    IF n < 10 THEN <<48 + n>> ELSE ToDecimal(n \div 10) \o <<48 + (n % 10)>>

\* "{}\n" of duration.as_nanos()
TraceLine(d) == ToDecimal(d) \o <<NL>>

\* {b:02X?}: two uppercase hexadecimal digits.
HexDigit(d) == IF d < 10 THEN 48 + d ELSE 55 + d
HexByte(b) == <<HexDigit(b \div 16), HexDigit(b % 16)>>

\* str::from_utf8: the well-formed UTF-8 byte sequences.
IsCont(b) == b >= 128 /\ b <= 191

RECURSIVE IsUtf8(_)
IsUtf8(d) ==
    IF d = <<>> THEN TRUE
    ELSE LET b == d[1]
             n == Len(d)
         IN  IF b < 128 THEN IsUtf8(Tail(d))
             ELSE IF b >= 194 /\ b <= 223
                  THEN n >= 2 /\ IsCont(d[2]) /\ IsUtf8(SubSeq(d, 3, n))
             ELSE IF b >= 224 /\ b <= 239
                  THEN /\ n >= 3
                       /\ \/ b = 224 /\ d[2] >= 160 /\ d[2] <= 191
                          \/ b >= 225 /\ b <= 236 /\ IsCont(d[2])
                          \/ b = 237 /\ d[2] >= 128 /\ d[2] <= 159
                          \/ b >= 238 /\ IsCont(d[2])
                       /\ IsCont(d[3])
                       /\ IsUtf8(SubSeq(d, 4, n))
             ELSE IF b >= 240 /\ b <= 244
                  THEN /\ n >= 4
                       /\ \/ b = 240 /\ d[2] >= 144 /\ d[2] <= 191
                          \/ b >= 241 /\ b <= 243 /\ IsCont(d[2])
                          \/ b = 244 /\ d[2] >= 128 /\ d[2] <= 143
                       /\ IsCont(d[3]) /\ IsCont(d[4])
                       /\ IsUtf8(SubSeq(d, 5, n))
             ELSE FALSE

\* print_stdout(data): the bytes it prints.
print_stdout(data) ==
    IF IsUtf8(data)
    THEN data \o <<NL>>
    ELSE Flatten([k \in 1..Len(data) |-> HexByte(data[k])])

\* The argument main() passes to print_stdout (line 116).
EchoArg == out_buf

\* ------------------------------------------------------------- state ----
\* The second run is started with the echo switched the other way.
OtherEcho(a) == IF a = "True" THEN "False" ELSE "True"

\* The second run before its first step: main()'s variables, as a record.
TwinInit(a, f) ==
    [pc |-> "OpenFiles", echo |-> OtherEcho(a), pos |-> 0, outFile |-> f,
     outCreated |-> FALSE, console |-> <<>>, len |-> 0, in_buf |-> <<>>,
     out_buf |-> <<>>, i |-> 0, now |-> 0, start |-> 0, res |-> -2, duration |-> 0,
     err |-> "none", errIter |-> 0, exitCode |-> -1, plains |-> <<>>,
     measured |-> <<>>]

Init ==
    /\ pc = "OpenFiles"
    /\ stdoutArg \in {"None", "False", "True"}
    /\ input \in SeqsUpTo(CipherBytes, MaxInput)
    /\ pos = 0
    /\ outFile \in {<<>>, TraceLine(7)}     \* whatever the output path held before
    /\ outCreated = FALSE
    /\ console = <<>>
    /\ len = 0
    /\ in_buf = <<>>
    /\ out_buf = <<>>
    /\ i = 0
    /\ now = 0
    /\ start = 0
    /\ res = -2
    /\ duration = 0
    /\ oracle = <<>>
    /\ readRes = "none"
    /\ err = "none"
    /\ errIter = 0
    /\ exitCode = -1
    /\ events = <<>>
    /\ decrypted = <<>>
    /\ plains = <<>>
    /\ measured = <<>>
    /\ twin = TwinInit(stdoutArg, outFile)

\* The error reported, and the process exiting with 0 all the same.
FailExitZero(e, n) ==
    /\ pc' = "Failed"
    /\ err' = e
    /\ errIter' = n
    /\ exitCode' = 0

\* main() returns Err(e): anyhow prints the error, the process exits with 1.
Fail(e, n) ==
    /\ pc' = "Failed"
    /\ err' = e
    /\ errIter' = n
    /\ exitCode' = 1

\* ------------------------------------------------------------ startup ---
OpenOutcomes == {"ok", "open_input", "create_output"}
KeyOutcomes == {"ok", "read_key", "parse_key", "not_rsa", "rsa", "size",
                "decrypter", "padding"}

\* open_files with its two lines exchanged: the output is created first.
OpenFilesOutputFirst ==
    /\ pc = "OpenFiles"
    /\ \E o \in OpenOutcomes :
         IF o = "create_output"
         THEN Fail("create_output", 0) /\ UNCHANGED <<outFile, outCreated>>
         ELSE IF o = "open_input"
         THEN Fail("open_input", 0) /\ outFile' = <<>> /\ outCreated' = TRUE
         ELSE /\ outFile' = <<>>
              /\ outCreated' = TRUE
              /\ pc' = "LoadKey"
              /\ UNCHANGED <<err, errIter, exitCode>>
    /\ UNCHANGED <<stdoutArg, input, pos, console, len, in_buf, out_buf, i, now,
                   start, res, duration, oracle, readRes, events, decrypted,
                   plains, measured>>

\* open_files: open the input, then create (and so truncate) the output.
OpenFiles ==
    /\ pc = "OpenFiles"
    /\ \E o \in OpenOutcomes :
         IF o = "open_input"
         THEN Fail("open_input", 0) /\ UNCHANGED <<outFile, outCreated>>
         ELSE IF o = "create_output"
         THEN Fail("create_output", 0) /\ UNCHANGED <<outFile, outCreated>>
         ELSE /\ outFile' = <<>>
              /\ outCreated' = TRUE
              /\ pc' = "LoadKey"
              /\ UNCHANGED <<err, errIter, exitCode>>
    /\ UNCHANGED <<stdoutArg, input, pos, console, len, in_buf, out_buf, i, now,
                   start, res, duration, oracle, readRes, events, decrypted,
                   plains, measured>>

\* The key set up only after the reader was made to fetch the start of the input.
LoadKeyAfterPeek ==
    /\ pc = "LoadKey"
    /\ \E k \in KeyOutcomes :
         IF k # "ok"
         THEN /\ Fail(k, 0)
              /\ pos' = IF Len(input) > 0 THEN 1 ELSE 0
              /\ UNCHANGED <<len, in_buf, out_buf, i>>
         ELSE \E l \in 1..MaxLen :
                /\ len' = l
                /\ in_buf' = Zeros(l)
                /\ out_buf' = Zeros(l)
                /\ i' = 0
                /\ pc' = "Reading"
                /\ UNCHANGED <<err, errIter, exitCode, pos>>
    /\ UNCHANGED <<stdoutArg, input, outFile, outCreated, console, now, start,
                   res, duration, oracle, readRes, events, decrypted, plains,
                   measured>>

\* Lines 80-102: read and parse the key, require RSA, take the modulus size,
\* build the decrypter, allocate both buffers, i = 0.
LoadKey ==
    /\ pc = "LoadKey"
    /\ \E k \in KeyOutcomes :
         IF k # "ok"
         THEN Fail(k, 0) /\ UNCHANGED <<len, in_buf, out_buf, i>>
         ELSE \E l \in 1..MaxLen :
                /\ len' = l
                /\ in_buf' = Zeros(l)
                /\ out_buf' = Zeros(l)
                /\ i' = 0
                /\ pc' = "Reading"
                /\ UNCHANGED <<err, errIter, exitCode>>
    /\ UNCHANGED <<stdoutArg, input, pos, outFile, outCreated, console, now, start,
                   res, duration, oracle, readRes, events, decrypted, plains,
                   measured>>

\* --------------------------------------------------------------- loop ---
\* The loop body with the echo moved in front of the reading of the timer.
LoopBodyEchoTimed == <<"StartTimer", "Decrypt", "Echo", "StopTimer", "CheckRes",
                       "Record", "Progress">>

\* The loop body with the echo moved behind the write of the duration.
LoopBodyEchoLast == <<"StartTimer", "Decrypt", "StopTimer", "CheckRes", "Record",
                      "Echo", "Progress">>

\* The statements of the loop body, lines 105-125, in program order.
LoopBody == <<"StartTimer", "Decrypt", "StopTimer", "CheckRes", "Echo", "Record",
              "Progress">>

IndexOf(p) == CHOOSE k \in 1..Len(LoopBody) : LoopBody[k] = p

\* The statement after p; after the last one, the loop condition again.
After(p) == IF IndexOf(p) = Len(LoopBody) THEN "Reading" ELSE LoopBody[IndexOf(p) + 1]

Min(a, b) == IF a <= b THEN a ELSE b

\* A reader that seeks back to the start of the stream before each read.
BlockAtRewound(inp, p, l) == SubSeq(inp, 1, Min(l, Len(inp)))

\* The next bytes of the stream at position p, at most l of them.
BlockAt(inp, p, l) == SubSeq(inp, p + 1, Min(p + l, Len(inp)))

\* A read that accepts whatever is left, as read() instead of read_exact() would.
FullBlockLoose(inp, p, l) == Len(inp) - p >= 1

\* read_exact succeeds only when the stream still holds a whole buffer.
FullBlock(inp, p, l) == Len(inp) - p >= l

\* The buffer after blk was read into its start.
Fill(buf, blk) == blk \o SubSeq(buf, Len(blk) + 1, Len(buf))

\* while reader.read_exact(&mut in_buf).is_ok()
LoopCond(r) == r = "ok"

\* A read that delivers the block under the reader and leaves the reader where it is.
ReadInPlace ==
    /\ pc = "Reading"
    /\ \E r \in {"ok", "eof", "io"} :
         /\ r = "ok" => FullBlock(input, pos, len)
         /\ r = "eof" => ~FullBlock(input, pos, len)
         /\ readRes' = r
         /\ in_buf' = IF r = "ok" THEN Fill(in_buf, BlockAt(input, pos, len)) ELSE in_buf
         /\ pos' = pos
         /\ pc' = IF LoopCond(r) THEN LoopBody[1] ELSE "AfterLoop"
         /\ events' = Append(events, IF r = "ok" THEN "read" ELSE "read_failed")
    /\ UNCHANGED <<stdoutArg, input, outFile, outCreated, console, len, out_buf, i,
                   now, start, res, duration, oracle, err, errIter, exitCode,
                   decrypted, plains, measured>>

\* Line 104. read_exact fills the whole buffer or fails: with UnexpectedEof when
\* the stream ends first, with the I/O error of the underlying read otherwise.
\* After a failure the content of the buffer is unspecified; the loop is left
\* and the buffer is not used again.
Read ==
    /\ pc = "Reading"
    /\ \E r \in {"ok", "eof", "io"} :
         /\ r = "ok" => FullBlock(input, pos, len)
         /\ r = "eof" => ~FullBlock(input, pos, len)
         /\ readRes' = r
         /\ IF r = "ok"
            THEN /\ in_buf' = Fill(in_buf, BlockAt(input, pos, len))
                 /\ pos' = pos + Len(BlockAt(input, pos, len))
            ELSE IF r = "eof"
            THEN in_buf' = in_buf /\ pos' = Len(input)
            ELSE in_buf' = in_buf /\ pos' = pos
         /\ pc' = IF LoopCond(r) THEN LoopBody[1] ELSE "AfterLoop"
         /\ events' = Append(events, IF r = "ok" THEN "read" ELSE "read_failed")
    /\ UNCHANGED <<stdoutArg, input, outFile, outCreated, console, len, out_buf, i,
                   now, start, res, duration, oracle, err, errIter, exitCode,
                   decrypted, plains, measured>>

\* The counter left as it is.
IncNone(n) == n

\* i = i + 1
Inc(n) == n + 1

\* Lines 105-106: i = i + 1; start = Instant::now()
StartTimer ==
    /\ pc = "StartTimer"
    /\ i' = Inc(i)
    /\ start' = now
    /\ pc' = After("StartTimer")
    /\ events' = Append(events, "timer_start")
    /\ UNCHANGED <<stdoutArg, input, pos, outFile, outCreated, console, len, in_buf,
                   out_buf, now, res, duration, oracle, readRes, err, errIter,
                   exitCode, decrypted, plains, measured>>

\* What the decrypt capability can answer for a block of l bytes: a failure, or a
\* plaintext of at most l bytes.
DecryptOutcomes(l) ==
    {[ok |-> FALSE, pt |-> <<>>]} \cup {[ok |-> TRUE, pt |-> p] : p \in SeqsUpTo(PlainBytes, l)}

\* decrypt writes the plaintext at the start of the buffer and returns its length;
\* the rest of the buffer keeps what it held.
StoreInto(buf, pt) == pt \o SubSeq(buf, Len(pt) + 1, Len(buf))

\* Line 107: res = decrypter.decrypt(&in_buf, &mut out_buf). The primitive is a
\* function of the block (oracle remembers its answers); the call takes time.
Decrypt ==
    /\ pc = "Decrypt"
    /\ \E o \in DecryptOutcomes(len), d \in Durations :
         /\ in_buf \in DOMAIN oracle => o = oracle[in_buf]
         /\ oracle' = IF in_buf \in DOMAIN oracle THEN oracle ELSE (in_buf :> o) @@ oracle
         /\ now' = now + d
         /\ res' = IF o.ok THEN Len(o.pt) ELSE -1
         /\ out_buf' = IF o.ok THEN StoreInto(out_buf, o.pt) ELSE out_buf
         /\ plains' = IF o.ok THEN Append(plains, o.pt) ELSE plains
    /\ decrypted' = Append(decrypted, in_buf)
    /\ pc' = After("Decrypt")
    /\ events' = Append(events, "decrypt")
    /\ UNCHANGED <<stdoutArg, input, pos, outFile, outCreated, console, len, in_buf,
                   i, start, duration, readRes, err, errIter, exitCode, measured>>

\* start.elapsed()
Elapsed(s, t) == t - s

\* Line 108: duration = start.elapsed()
StopTimer ==
    /\ pc = "StopTimer"
    /\ duration' = Elapsed(start, now)
    /\ measured' = Append(measured, Elapsed(start, now))
    /\ pc' = After("StopTimer")
    /\ events' = Append(events, "timer_stop")
    /\ UNCHANGED <<stdoutArg, input, pos, outFile, outCreated, console, len, in_buf,
                   out_buf, i, now, start, res, oracle, readRes, err, errIter,
                   exitCode, decrypted, plains>>

\* Lines 110-112: if res.is_err() { bail!("Failed to decrypt on iteration {i}") }
CheckRes ==
    /\ pc = "CheckRes"
    /\ IF res = -1
       THEN Fail("decrypt", i) /\ events' = Append(events, "error")
       ELSE /\ pc' = After("CheckRes")
            /\ UNCHANGED <<err, errIter, exitCode, events>>
    /\ UNCHANGED <<stdoutArg, input, pos, outFile, outCreated, console, len, in_buf,
                   out_buf, i, now, start, res, duration, oracle, readRes,
                   decrypted, plains, measured>>

\* if let Some(stdout) = args.stdout { if stdout { ... } }
EchoEnabled(a) == a = "True"

\* The echo printed into the output file instead of standard output.
EchoIntoTrace ==
    /\ pc = "Echo"
    /\ IF EchoEnabled(stdoutArg)
       THEN /\ outFile' = outFile \o print_stdout(EchoArg)
            /\ events' = Append(events, "echo")
       ELSE UNCHANGED <<outFile, events>>
    /\ pc' = After("Echo")
    /\ UNCHANGED <<stdoutArg, input, pos, console, outCreated, len, in_buf, out_buf,
                   i, now, start, res, duration, oracle, readRes, err, errIter,
                   exitCode, decrypted, plains, measured>>

\* Lines 114-118.
Echo ==
    /\ pc = "Echo"
    /\ IF EchoEnabled(stdoutArg)
       THEN /\ console' = Append(console, [k |-> "echo", n |-> i, bytes |-> print_stdout(EchoArg)])
            /\ events' = Append(events, "echo")
       ELSE UNCHANGED <<console, events>>
    /\ pc' = After("Echo")
    /\ UNCHANGED <<stdoutArg, input, pos, outFile, outCreated, len, in_buf, out_buf,
                   i, now, start, res, duration, oracle, readRes, err, errIter,
                   exitCode, decrypted, plains, measured>>

\* What the file holds after a write of line that failed: write_all may have put
\* out any part of the line short of its end before the error.
PartialWrites(line) == {SubSeq(line, 1, k) : k \in 0..(Len(line) - 1)}

\* The result of the write dropped: the loop goes on.
OnWriteErrorIgnored ==
    /\ pc' = "Progress"
    /\ UNCHANGED <<err, errIter, exitCode>>

\* .context("failed to write duration")? : the error leaves main().
OnWriteError == Fail("write", 0)

\* A write that leaves out the durations that are zero.
RecordSkipsZero ==
    /\ pc = "Record"
    /\ \E ok \in BOOLEAN :
         IF ok
         THEN /\ outFile' = IF duration = 0 THEN outFile ELSE outFile \o TraceLine(duration)
              /\ pc' = After("Record")
              /\ events' = Append(events, "write")
              /\ UNCHANGED <<err, errIter, exitCode>>
         ELSE /\ \E part \in PartialWrites(TraceLine(duration)) : outFile' = outFile \o part
              /\ OnWriteError
              /\ events' = Append(events, "write_failed")
    /\ UNCHANGED <<stdoutArg, input, pos, outCreated, console, len, in_buf, out_buf,
                   i, now, start, res, duration, oracle, readRes, decrypted, plains,
                   measured>>

\* Lines 120-121: write!(&mut output_file, "{}\n", duration.as_nanos())
\*                    .context("failed to write duration")?
Record ==
    /\ pc = "Record"
    /\ \E ok \in BOOLEAN :
         IF ok
         THEN /\ outFile' = outFile \o TraceLine(duration)
              /\ pc' = After("Record")
              /\ events' = Append(events, "write")
              /\ UNCHANGED <<err, errIter, exitCode>>
         ELSE /\ \E part \in PartialWrites(TraceLine(duration)) : outFile' = outFile \o part
              /\ OnWriteError
              /\ events' = Append(events, "write_failed")
    /\ UNCHANGED <<stdoutArg, input, pos, outCreated, console, len, in_buf, out_buf,
                   i, now, start, res, duration, oracle, readRes, decrypted, plains,
                   measured>>

\* The progress line printed for the counts one past a multiple.
ProgressOnePast ==
    /\ pc = "Progress"
    /\ IF (i - 1) % ProgressEvery = 0
       THEN /\ console' = Append(console, [k |-> "progress", n |-> i, bytes |-> ToDecimal(i)])
            /\ events' = Append(events, "progress")
       ELSE UNCHANGED <<console, events>>
    /\ pc' = After("Progress")
    /\ UNCHANGED <<stdoutArg, input, pos, outFile, outCreated, len, in_buf, out_buf,
                   i, now, start, res, duration, oracle, readRes, err, errIter,
                   exitCode, decrypted, plains, measured>>

\* Lines 123-125: if i % 10000 == 0 { println!("iteration {i}") }
Progress ==
    /\ pc = "Progress"
    /\ IF i % ProgressEvery = 0
       THEN /\ console' = Append(console, [k |-> "progress", n |-> i, bytes |-> ToDecimal(i)])
            /\ events' = Append(events, "progress")
       ELSE UNCHANGED <<console, events>>
    /\ pc' = After("Progress")
    /\ UNCHANGED <<stdoutArg, input, pos, outFile, outCreated, len, in_buf, out_buf,
                   i, now, start, res, duration, oracle, readRes, err, errIter,
                   exitCode, decrypted, plains, measured>>

\* The check after the loop taken one too far, and left out.
TooSmallOffByOne(n) == n <= 1
TooSmallNever(n) == FALSE

\* if i == 0
TooSmall(n) == n = 0

\* Lines 128-132: bail!("Failed to read input file: too small") or Ok(())
AfterLoop ==
    /\ pc = "AfterLoop"
    /\ IF TooSmall(i)
       THEN Fail("too_small", 0)
       ELSE /\ pc' = "Finished"
            /\ exitCode' = 0
            /\ UNCHANGED <<err, errIter>>
    /\ UNCHANGED <<stdoutArg, input, pos, outFile, outCreated, console, len, in_buf,
                   out_buf, i, now, start, res, duration, oracle, readRes, events,
                   decrypted, plains, measured>>

\* One run alone: the second run is not started.
Solo(A) == A /\ UNCHANGED twin

Next ==
    \/ Solo(OpenFiles)
    \/ Solo(LoadKey)
    \/ Solo(Read)
    \/ Solo(StartTimer)
    \/ Solo(Decrypt)
    \/ Solo(StopTimer)
    \/ Solo(CheckRes)
    \/ Solo(Echo)
    \/ Solo(Record)
    \/ Solo(Progress)
    \/ Solo(AfterLoop)

Spec == Init /\ [][Next]_vars

\* main() is one thread and every call it makes returns: it takes its next step
\* as long as it has one.
SpecFair == Spec /\ WF_vars(Next)

\* ------------------------------------------- a run near a progress line --
\* The state of a run at the loop condition (line 104) that has behind it one
\* iteration short of ProgressEvery: the modulus is one byte, every block so far was
\* the byte 0, the key decrypts it to 'A', every decrypt took no time and every write
\* succeeded. The input goes on with at most MaxTail more blocks.
\* The logs events, decrypted, plains and measured record the steps taken from this
\* state on.
DoneBefore == ProgressEvery - 1

Repeat(cycle, n) == [k \in 1..(n * Len(cycle)) |-> cycle[((k - 1) % Len(cycle)) + 1]]

InitNearProgress ==
    /\ pc = "Reading"
    /\ stdoutArg \in {"False", "True"}
    /\ \E tail \in SeqsUpTo(CipherBytes, MaxTail) : input = Zeros(DoneBefore) \o tail
    /\ pos = DoneBefore
    /\ outFile = Repeat(TraceLine(0), DoneBefore)
    /\ outCreated = TRUE
    /\ console = IF EchoEnabled(stdoutArg)
                 THEN [k \in 1..DoneBefore |->
                         [k |-> "echo", n |-> k, bytes |-> print_stdout(<<65>>)]]
                 ELSE <<>>
    /\ len = 1
    /\ in_buf = <<0>>
    /\ out_buf = <<65>>
    /\ i = DoneBefore
    /\ now = 0
    /\ start = 0
    /\ res = 1
    /\ duration = 0
    /\ oracle = (<<0>> :> [ok |-> TRUE, pt |-> <<65>>])
    /\ readRes = "ok"
    /\ err = "none"
    /\ errIter = 0
    /\ exitCode = -1
    /\ events = <<>>
    /\ decrypted = <<>>
    /\ plains = <<>>
    /\ measured = <<>>
    /\ twin = TwinInit(stdoutArg, <<>>)

NextLoop ==
    \/ Solo(Read)
    \/ Solo(StartTimer)
    \/ Solo(Decrypt)
    \/ Solo(StopTimer)
    \/ Solo(CheckRes)
    \/ Solo(Echo)
    \/ Solo(Record)
    \/ Solo(Progress)
    \/ Solo(AfterLoop)

SpecNearProgress == InitNearProgress /\ [][NextLoop]_vars

\* ------------------------------------------------------- two runs -------
\* What the environment did in the step the first run takes: the outcome of the open,
\* of the key setup, of the read and of the write, and the key's answers so far. The
\* second run meets the same, except for the time its decrypt takes.
Env ==
    [open    |-> IF pc = "OpenFiles" /\ pc' # "LoadKey" THEN err' ELSE "ok",
     key     |-> IF pc = "LoadKey" /\ pc' # "Reading" THEN err' ELSE "ok",
     l       |-> len',
     read    |-> readRes',
     orc     |-> oracle',
     d       |-> MaxDur - (now' - now),
     writeOk |-> ~(pc = "Record" /\ events' # events
                     /\ events'[Len(events')] = "write_failed"),
     part    |-> Len(outFile') - Len(outFile)]

\* main() returns Err(e), in the second run.
TwinFail(t, e, n) == [t EXCEPT !.pc = "Failed", !.err = e, !.errIter = n, !.exitCode = 1]

\* The step main() takes from the state t of the second run, lines 76-132, when the
\* environment answers e.
TwinStep(t, e) ==
    CASE t.pc = "OpenFiles" ->
           IF e.open # "ok" THEN TwinFail(t, e.open, 0)
           ELSE [t EXCEPT !.outFile = <<>>, !.outCreated = TRUE, !.pc = "LoadKey"]
      [] t.pc = "LoadKey" ->
           IF e.key # "ok" THEN TwinFail(t, e.key, 0)
           ELSE [t EXCEPT !.len = e.l, !.in_buf = Zeros(e.l), !.out_buf = Zeros(e.l),
                          !.i = 0, !.pc = "Reading"]
      [] t.pc = "Reading" ->
           LET r == IF e.read = "ok" /\ ~FullBlock(input, t.pos, t.len)
                    THEN "eof" ELSE e.read
           IN  IF r = "ok"
               THEN [t EXCEPT !.in_buf = Fill(t.in_buf, BlockAt(input, t.pos, t.len)),
                              !.pos = t.pos + Len(BlockAt(input, t.pos, t.len)),
                              !.pc = IF LoopCond(r) THEN LoopBody[1] ELSE "AfterLoop"]
               ELSE [t EXCEPT !.pos = IF r = "eof" THEN Len(input) ELSE t.pos,
                              !.pc = IF LoopCond(r) THEN LoopBody[1] ELSE "AfterLoop"]
      [] t.pc = "StartTimer" ->
           [t EXCEPT !.i = Inc(t.i), !.start = t.now, !.pc = After("StartTimer")]
      [] t.pc = "Decrypt" ->
           LET o == IF t.in_buf \in DOMAIN e.orc THEN e.orc[t.in_buf]
                    ELSE [ok |-> FALSE, pt |-> <<>>]
           IN  [t EXCEPT !.now = t.now + e.d,
                         !.res = IF o.ok THEN Len(o.pt) ELSE -1,
                         !.out_buf = IF o.ok THEN StoreInto(t.out_buf, o.pt) ELSE t.out_buf,
                         !.plains = IF o.ok THEN Append(t.plains, o.pt) ELSE t.plains,
                         !.pc = After("Decrypt")]
      [] t.pc = "StopTimer" ->
           [t EXCEPT !.duration = Elapsed(t.start, t.now),
                     !.measured = Append(t.measured, Elapsed(t.start, t.now)),
                     !.pc = After("StopTimer")]
      [] t.pc = "CheckRes" ->
           IF t.res = -1 THEN TwinFail(t, "decrypt", t.i)
           ELSE [t EXCEPT !.pc = After("CheckRes")]
      [] t.pc = "Echo" ->
           IF EchoEnabled(t.echo)
           THEN [t EXCEPT !.console = Append(t.console,
                                [k |-> "echo", n |-> t.i, bytes |-> print_stdout(t.out_buf)]),
                          !.pc = After("Echo")]
           ELSE [t EXCEPT !.pc = After("Echo")]
      [] t.pc = "Record" ->
           LET line == TraceLine(t.duration)
           IN  IF e.writeOk
               THEN [t EXCEPT !.outFile = t.outFile \o line, !.pc = After("Record")]
               ELSE TwinFail([t EXCEPT !.outFile = t.outFile
                                          \o SubSeq(line, 1, Min(e.part, Len(line) - 1))],
                             "write", 0)
      [] t.pc = "Progress" ->
           IF t.i % ProgressEvery = 0
           THEN [t EXCEPT !.console = Append(t.console,
                                [k |-> "progress", n |-> t.i, bytes |-> ToDecimal(t.i)]),
                          !.pc = After("Progress")]
           ELSE [t EXCEPT !.pc = After("Progress")]
      [] t.pc = "AfterLoop" ->
           IF TooSmall(t.i) THEN TwinFail(t, "too_small", 0)
           ELSE [t EXCEPT !.pc = "Finished", !.exitCode = 0]
      [] OTHER -> t

\* Both runs take a step, against the same environment.
Pair(A) == A /\ twin' = TwinStep(twin, Env)

NextPair ==
    \/ Pair(OpenFiles)
    \/ Pair(LoadKey)
    \/ Pair(Read)
    \/ Pair(StartTimer)
    \/ Pair(Decrypt)
    \/ Pair(StopTimer)
    \/ Pair(CheckRes)
    \/ Pair(Echo)
    \/ Pair(Record)
    \/ Pair(Progress)
    \/ Pair(AfterLoop)

SpecPair == Init /\ [][NextPair]_vars

\* ===================================================== properties ========
Terminal == pc \in {"Finished", "Failed"}

HasNL(f) == \E k \in DOMAIN f : f[k] = NL
FirstNL(f) == CHOOSE k \in DOMAIN f : f[k] = NL /\ \A m \in 1..(k - 1) : f[m] # NL

\* The newline-terminated lines of a byte stream, and what follows the last of them.
RECURSIVE Lines(_)
Lines(f) ==
    IF ~HasNL(f) THEN <<>>
    ELSE <<SubSeq(f, 1, FirstNL(f) - 1)>> \o Lines(SubSeq(f, FirstNL(f) + 1, Len(f)))

RECURSIVE Fragment(_)
Fragment(f) == IF ~HasNL(f) THEN f ELSE Fragment(SubSeq(f, FirstNL(f) + 1, Len(f)))

IsDecimal(l) == Len(l) >= 1 /\ \A k \in DOMAIN l : l[k] >= 48 /\ l[k] <= 57

RECURSIVE ParseDecimal(_)
ParseDecimal(l) ==
    IF l = <<>> THEN 0
    ELSE 10 * ParseDecimal(SubSeq(l, 1, Len(l) - 1)) + (l[Len(l)] - 48)

\* The Trace: the lines of the output file.
Trace == Lines(outFile)

\* The key was loaded and the loop was entered.
Started == len > 0

\* The j-th block of the input.
Block(j) == SubSeq(input, (j - 1) * len + 1, j * len)

\* The run met no failure of read, decrypt or write.
NoFault == readRes # "io" /\ err \notin {"decrypt", "write"}

\* C1: an input of exactly n >= 1 full blocks, read, decrypted and recorded without
\* failure, ends in Finished with exit status 0 and a Trace of exactly n lines, each
\* the decimal numeral of a non-negative integer (the duration measured for it).
C1_FullBlocksFinish ==
    (Terminal /\ Started /\ NoFault /\ Len(input) >= len /\ Len(input) % len = 0)
        => /\ pc = "Finished"
           /\ exitCode = 0
           /\ Len(Trace) = Len(input) \div len
           /\ Fragment(outFile) = <<>>
           /\ \A k \in DOMAIN Trace :
                IsDecimal(Trace[k]) /\ ParseDecimal(Trace[k]) >= 0
                    /\ ParseDecimal(Trace[k]) = measured[k]

C1_Witness ==
    /\ pc = "Finished"
    /\ len = 2
    /\ Len(input) = 2 * len
    /\ Len(Trace) = 2
    /\ measured = <<MaxDur, 0>>

\* C2: an input shorter than one block (empty or partial) never reaches decrypt, leaves
\* the Trace empty, and ends in Failed with the too-small error, never in Finished.
C2_ShortInputFails ==
    (Started /\ Len(input) < len)
        => /\ decrypted = <<>>
           /\ outFile = <<>>
           /\ pc # "Finished"
           /\ Terminal => (pc = "Failed" /\ err = "too_small" /\ exitCode = 1)

C2_Witness ==
    /\ pc = "Failed"
    /\ err = "too_small"
    /\ len = 2
    /\ Len(input) = 1
    /\ readRes = "eof"

\* C3: an input of k >= 1 full blocks followed by 0 < r < len more bytes, with no
\* failure on the k blocks, ends in Finished with exactly k Trace lines; decrypt was
\* called on the k full blocks only, and no error is reported.
C3_TrailingBytesIgnored ==
    (Terminal /\ Started /\ NoFault /\ Len(input) >= len /\ Len(input) % len # 0)
        => /\ pc = "Finished"
           /\ err = "none"
           /\ exitCode = 0
           /\ Len(Trace) = Len(input) \div len
           /\ Len(decrypted) = Len(input) \div len
           /\ \A j \in DOMAIN decrypted : decrypted[j] = Block(j)

C3_Witness ==
    /\ pc = "Finished"
    /\ len = 2
    /\ Len(input) = 3
    /\ Len(Trace) = 1
    /\ readRes = "eof"

\* The file content that the durations ds make, one line each.
TraceOf(ds) == Flatten([k \in DOMAIN ds |-> TraceLine(ds[k])])

\* C4: when decrypt fails on block j, the run ends in Failed with the decrypt error
\* carrying exactly j; the Trace is exactly the j-1 durations of the blocks before it;
\* j blocks were read, j handed to decrypt, and the run does nothing more.
C4_DecryptErrorIndex ==
    (res = -1 /\ pc \notin {"StopTimer", "CheckRes"})
        => LET j == Len(decrypted)
           IN  /\ pc = "Failed"
               /\ err = "decrypt"
               /\ errIter = j
               /\ exitCode = 1
               /\ Len(plains) = j - 1
               /\ outFile = TraceOf(SubSeq(measured, 1, j - 1))
               /\ pos = j * len
               /\ ~ENABLED Next

C4_Witness ==
    /\ pc = "Failed"
    /\ err = "decrypt"
    /\ errIter = 2
    /\ Len(Trace) = 1

\* C5 (as claimed): a read of the input that fails with an I/O error, at any iteration,
\* ends the run in Failed, never in Finished.
C5_ReadErrorIsFatal ==
    (Terminal /\ readRes = "io") => (pc = "Failed" /\ exitCode # 0)

Count(seq, x) == Cardinality({k \in DOMAIN seq : seq[k] = x})

\* C6: when the write of block j's duration fails, the run ends at once in Failed with
\* the write error; the write was tried once; j blocks were read and decrypted and none
\* after; the Trace is exactly the j-1 lines written before, followed at most by the
\* part of line j that reached the file before the error.
C6_WriteErrorIsFatal ==
    (Count(events, "write_failed") > 0)
        => LET j == Len(measured)
           IN  /\ pc = "Failed"
               /\ err = "write"
               /\ exitCode = 1
               /\ Count(events, "write_failed") = 1
               /\ events[Len(events)] = "write_failed"
               /\ Count(events, "write") = j - 1
               /\ Len(decrypted) = j
               /\ pos = j * len
               /\ Trace = [k \in 1..(j - 1) |-> ToDecimal(measured[k])]
               /\ outFile = TraceOf(SubSeq(measured, 1, j - 1)) \o Fragment(outFile)
               /\ Fragment(outFile) \in PartialWrites(TraceLine(measured[j]))
               /\ ~ENABLED Next

C6_Witness ==
    /\ pc = "Failed"
    /\ err = "write"
    /\ Len(measured) = 2
    /\ Len(Trace) = 1
    /\ Fragment(outFile) = <<>>

\* C7: exit status 0 is reported only from Finished with i > 0, and then the Trace is
\* not empty; Finished reports 0, and Failed reports a status other than 0.
C7_SuccessOnlyWithTrace ==
    /\ exitCode = 0 => (pc = "Finished" /\ i > 0 /\ Len(Trace) >= 1)
    /\ pc = "Finished" => exitCode = 0
    /\ pc = "Failed" => (exitCode # 0 /\ exitCode # -1 /\ err # "none")

C7_Witness ==
    /\ pc = "Finished"
    /\ exitCode = 0
    /\ i = 1
    /\ Len(Trace) = 1
    /\ readRes = "eof"

\* C8: in the history of steps, every timer start is followed directly by the one
\* decrypt call of that block and that by the timer stop, whether decrypt succeeded
\* or failed: nothing else lies between start and stop.
C8_TimerBracketsDecrypt ==
    \A k \in DOMAIN events :
        /\ events[k] = "timer_start" =>
              /\ k + 1 <= Len(events) => events[k + 1] = "decrypt"
              /\ k + 2 <= Len(events) => events[k + 2] = "timer_stop"
        /\ events[k] = "timer_stop" =>
              k >= 3 /\ events[k - 1] = "decrypt" /\ events[k - 2] = "timer_start"
        /\ events[k] = "decrypt" => k >= 2 /\ events[k - 1] = "timer_start"

C8_Witness ==
    /\ stdoutArg = "True"
    /\ Count(events, "timer_stop") = 2
    /\ Count(events, "echo") = 1
    /\ res = -1
    /\ pc = "Failed"

\* C9: the j-th block handed to decrypt is bytes [(j-1)*len, j*len) of the input, each
\* block at most once and none beyond the input; the reader stands right after the
\* blocks read; and the k-th Trace line is the duration measured for the k-th block.
C9_BlocksInStreamOrder ==
    Started =>
        /\ \A j \in DOMAIN decrypted : decrypted[j] = Block(j)
        /\ Len(decrypted) * len <= Len(input)
        /\ Len(measured) \in {Len(decrypted), Len(decrypted) - 1}
        /\ Len(Trace) <= Len(measured)
        /\ \A k \in DOMAIN Trace : Trace[k] = ToDecimal(measured[k])
        /\ pc \in {"StartTimer", "Decrypt"} => in_buf = Block(Len(decrypted) + 1)

C9_Witness ==
    /\ len = 2
    /\ decrypted = <<(<<0, 1>>), (<<1, 0>>)>>
    /\ measured = <<0, MaxDur>>
    /\ Trace = <<ToDecimal(0), ToDecimal(MaxDur)>>

\* The echo of a plaintext as documented: the text and a newline when it is valid
\* UTF-8, two uppercase hexadecimal digits a byte otherwise.
EchoOf(pt) ==
    IF IsUtf8(pt) THEN pt \o <<NL>> ELSE Flatten([k \in DOMAIN pt |-> HexByte(pt[k])])

\* C10 (as claimed): with echo enabled, the echo of every decrypted block is the echo
\* of the plaintext decrypt produced for it, of 2 x (plaintext length) digits when it
\* is in hexadecimal, and not that of the whole output buffer.
C10_EchoIsPlaintext ==
    \A k \in DOMAIN console :
        console[k].k = "echo" =>
            LET pt == plains[console[k].n]
            IN  /\ console[k].bytes = EchoOf(pt)
                /\ ~IsUtf8(pt) => Len(console[k].bytes) = 2 * Len(pt)

KeyFailures == KeyOutcomes \ {"ok"}
OpenFailures == OpenOutcomes \ {"ok"}

\* C13: a run that fails at startup (files or key) is in Failed with a non-zero status
\* and has touched no block: nothing was read from the input, decrypt was not called,
\* no step of the loop was taken, and nothing was written to the output file the run
\* created; after a key failure that file exists and the Trace is empty.
C13_StartupFailureTouchesNothing ==
    (err \in KeyFailures \cup OpenFailures)
        => /\ pc = "Failed"
           /\ exitCode = 1
           /\ pos = 0
           /\ readRes = "none"
           /\ i = 0
           /\ events = <<>>
           /\ decrypted = <<>>
           /\ outCreated => outFile = <<>>
           /\ err \in KeyFailures => (outCreated /\ Trace = <<>>)
           /\ ~ENABLED Next

C13_Witness ==
    /\ pc = "Failed"
    /\ err = "padding"
    /\ Len(input) = MaxInput
    /\ outFile = <<>>

\* The iterations that have been begun and have not yet written their line.
LineOwed ==
    \/ pc \in {"Decrypt", "StopTimer", "CheckRes", "Echo", "Record"}
    \/ err \in {"decrypt", "write"}

\* C14 (as claimed): in every reachable state the counter i equals the number of Trace
\* lines written.
C14_CounterEqualsTraceLines ==
    Started => i = Len(Trace)

\* C14 (amended): i counts the iterations begun. It is the number of Trace lines, plus
\* one from its increment before decrypt until the line of that block is written, and
\* so in the Failed states of a decrypt or write failure; it never decreases.
C14_CounterCountsIterationsBegun ==
    /\ [](Started => /\ i = Len(Trace) + (IF LineOwed THEN 1 ELSE 0)
                     /\ i = Count(events, "timer_start"))
    /\ [][i' >= i]_vars

C14_Witness ==
    /\ pc = "Failed"
    /\ err = "decrypt"
    /\ i = 2
    /\ Len(Trace) = 1

\* C15 (as claimed): with echo enabled, the bytes echoed for a block come from its own
\* plaintext alone: they are the echo of a fresh zeroed buffer holding that plaintext,
\* with no byte of an earlier block's plaintext in them.
C15_EchoHoldsNoEarlierPlaintext ==
    \A k \in DOMAIN console :
        console[k].k = "echo" =>
            console[k].bytes = print_stdout(StoreInto(Zeros(len), plains[console[k].n]))

\* C18: with echo enabled, the echo of a block comes right after its timer stop and
\* successful decrypt and right before the write of its line: the blocks echoed are
\* the Trace lines or one more; a block whose decrypt failed is not echoed; a block
\* whose write failed was echoed.
C18_EchoBetweenDecryptAndWrite ==
    (Started /\ stdoutArg = "True")
        => LET e == Count(events, "echo")
               w == Count(events, "write")
           IN  /\ w = Len(Trace)
               /\ e - w \in {0, 1}
               /\ e <= Len(plains)
               /\ err = "decrypt" => (e = errIter - 1 /\ e = Len(plains))
               /\ Count(events, "write_failed") > 0 => e = w + 1
               /\ \A k \in DOMAIN events :
                    /\ events[k] = "echo" =>
                          /\ events[k - 1] = "timer_stop"
                          /\ k < Len(events) => events[k + 1] \in {"write", "write_failed"}
                    /\ events[k] \in {"write", "write_failed"} => events[k - 1] = "echo"
               /\ \A k \in DOMAIN console :
                    console[k].k = "echo" => console[k].n = k

C18_Witness ==
    /\ stdoutArg = "True"
    /\ pc = "Failed"
    /\ err = "write"
    /\ Count(events, "echo") = 2
    /\ Len(Trace) = 1

\* C19: a step of startup that fails to open the input leaves the output file as it
\* was and not created; every failure of the key setup finds the output file created
\* and leaves it empty, and the creation itself empties whatever the file held.
C19_StartupOrder ==
    [][/\ err' = "open_input" => (outFile' = outFile /\ ~outCreated')
       /\ err' \in KeyFailures => (outCreated' /\ outFile' = <<>>)
       /\ (pc = "OpenFiles" /\ pc' = "LoadKey") => (outCreated' /\ outFile' = <<>>)]_vars

C19_Witness ==
    /\ pc = "Failed"
    /\ err = "not_rsa"
    /\ outCreated
    /\ outFile = <<>>

\* C17: the run reaches Finished or Failed, after at most floor(Len(input) / len) calls
\* of decrypt: every read that succeeds moves the reader on by exactly len bytes, and
\* the first read that fails, decrypt that fails or write that fails ends the loop.
C17_Terminates ==
    /\ <>Terminal
    /\ [](Started =>
            /\ Len(decrypted) <= Len(input) \div len
            /\ Count(events, "decrypt") = Len(decrypted)
            /\ readRes # "eof" => pos = len * Count(events, "read")
            /\ Count(events, "read_failed") <= 1
            /\ Count(events, "read_failed") = 1 =>
                  /\ events[Len(events)] = "read_failed"
                  /\ pc \in {"AfterLoop", "Finished", "Failed"}
            /\ err \in {"decrypt", "write"} => Terminal)

C17_Witness ==
    /\ pc = "Finished"
    /\ len = 1
    /\ Len(input) = MaxInput
    /\ Len(decrypted) = MaxInput
    /\ readRes = "eof"

\* C11: of two runs on the same input, with the same decrypt outcomes and the same
\* read and write outcomes, one with the echo and one without, each is where the other
\* is: they end in the same state, Finished or Failed with the same error and the same
\* block index and exit status, and with the same number of Trace lines.
C11_EchoLeavesTraceAlone ==
    /\ EchoEnabled(twin.echo) # EchoEnabled(stdoutArg)
    /\ twin.pc = pc
    /\ twin.err = err
    /\ twin.errIter = errIter
    /\ twin.exitCode = exitCode
    /\ Len(Lines(twin.outFile)) = Len(Trace)

C11_Witness ==
    /\ stdoutArg = "True"
    /\ pc = "Failed"
    /\ err = "write"
    /\ Len(console) = 2
    /\ twin.console = <<>>
    /\ twin.pc = "Failed"
    /\ Len(Lines(twin.outFile)) = 1

\* C12: two runs with the same key and the same input, whose decrypt calls take
\* different times, decrypt the same plaintext for every block, write the same number
\* of Trace lines and end in the same state; the durations are all that differs.
C12_SameButForDurations ==
    /\ twin.plains = plains
    /\ twin.len = len
    /\ twin.pos = pos
    /\ Len(twin.measured) = Len(measured)
    /\ Len(Lines(twin.outFile)) = Len(Lines(outFile))
    /\ Terminal => (twin.pc = pc /\ twin.err = err /\ twin.errIter = errIter)

C12_Witness ==
    /\ pc = "Finished"
    /\ twin.pc = "Finished"
    /\ Len(plains) = 2
    /\ plains[1] # plains[2]
    /\ measured = <<0, MaxDur>>
    /\ twin.measured = <<MaxDur, 0>>
    /\ Lines(twin.outFile) # Trace

\* The progress lines on the console, and the lines the output file holds.
ProgressLines == {k \in DOMAIN console : console[k].k = "progress"}
NumLines(f) == Cardinality({k \in DOMAIN f : f[k] = NL})

\* The iterations that have passed line 125.
PastProgress == IF LineOwed \/ pc = "Progress" THEN i - 1 ELSE i

\* C16: every progress line carries a positive multiple of ProgressEvery, as a decimal
\* numeral, and stands for a block whose Trace line is written; every positive
\* multiple of ProgressEvery among the iterations completed has exactly one progress
\* line, and a block that failed has none.
C16_ProgressEveryTenThousand ==
    LET shown == ProgressLines
    IN  /\ \A k \in shown :
             /\ console[k].n > 0
             /\ console[k].n % ProgressEvery = 0
             /\ console[k].n <= PastProgress
             /\ console[k].n <= NumLines(outFile)
             /\ console[k].bytes = ToDecimal(console[k].n)
        /\ \A q \in 1..(PastProgress \div ProgressEvery) :
             Cardinality({k \in shown : console[k].n = q * ProgressEvery}) = 1

C16_Witness ==
    /\ pc = "Finished"
    /\ i = ProgressEvery + 1
    /\ stdoutArg = "True"
    /\ Cardinality(ProgressLines) = 1
    /\ console[ProgressEvery + 1] = [k |-> "progress", n |-> ProgressEvery,
                                     bytes |-> ToDecimal(ProgressEvery)]

====
